---- MODULE Spec2Model ----
(***************************************************************************)
(* Payment draft preparation, submission and scheduling of the invoice     *)
(* MCP server (veem_invoice_mcp/domain/payments).                          *)
(*                                                                         *)
(* A Python string is a TLA+ string. Where the code looks inside a string  *)
(* (normalising, searching, matching a regular expression) the model works *)
(* on its characters, Text[s], a sequence of one-character strings, and    *)
(* Intern turns a computed sequence of characters back into the string.    *)
(* Floats are integers: an amount is a number of cents, a match confidence *)
(* a number of hundredths.                                                 *)
(***************************************************************************)
EXTENDS Integers, Sequences, FiniteSets, TLC

(***************************************************************************)
(* Python values                                                           *)
(***************************************************************************)
\* None, where a string is expected
None == "<None>"
\* A key that a dict does not hold (dict.get then yields its default).
Absent == "<absent>"
\* None, where an amount is expected
NoneAmt == -1

\* bool(s) of an Optional[str]
Truthy(s) == s \notin {None, Absent, ""}
\* bool(a) of an Optional[float]: None and 0.0 are both falsy.
TruthyAmt(a) == a # NoneAmt /\ a # 0
\* x or y
OrElse(x, y) == IF Truthy(x) THEN x ELSE y
OrElseAmt(x, y) == IF TruthyAmt(x) THEN x ELSE y

\* The characters of every string the model inspects or computes.
Text ==
       ""             :> <<>>
    @@ " "            :> <<" ">>
    @@ "None"         :> <<"N","o","n","e">>
    @@ "none"         :> <<"n","o","n","e">>
    @@ "Sam"          :> <<"S","a","m">>
    @@ "sam"          :> <<"s","a","m">>
    @@ "Sam Ex"       :> <<"S","a","m"," ","E","x">>
    @@ "Al"           :> <<"A","l">>
    @@ "Bo Sam"       :> <<"B","o"," ","S","a","m">>
    @@ " SAM  ex "    :> <<" ","S","A","M"," "," ","e","x"," ">>
    @@ "rent"         :> <<"r","e","n","t">>
    @@ "x"            :> <<"x">>
    @@ "a@x"          :> <<"a","@","x">>
    @@ " A@X"         :> <<" ","A","@","X">>
    @@ "b@x"          :> <<"b","@","x">>
    @@ "Sam for rent" :> <<"S","a","m"," ","f","o","r"," ","r","e","n","t">>
    @@ "Pay $50 to Sam for rent" :>
           <<"P","a","y"," ","$","5","0"," ","t","o"," ","S","a","m",
             " ","f","o","r"," ","r","e","n","t">>
    @@ "pay 0 to Al"  :> <<"p","a","y"," ","0"," ","t","o"," ","A","l">>
    @@ "Pay 7 FOR x"  :> <<"P","a","y"," ","7"," ","F","O","R"," ","x">>
    @@ "pmt_1"        :> <<"p","m","t","_","1">>
    @@ " p2 "         :> <<" ","p","2"," ">>
    @@ "p2"           :> <<"p","2">>
    @@ "  "           :> <<" "," ">>
    @@ "2030-01-01T00:00:00Z" :>
           <<"2","0","3","0","-","0","1","-","0","1","T","0","0",":","0","0",":","0","0","Z">>
    @@ "2030-01-01" :>
           <<"2","0","3","0","-","0","1","-","0","1">>
    @@ "2030-02-30T10:00:00" :>
           <<"2","0","3","0","-","0","2","-","3","0","T","1","0",":","0","0",":","0","0">>
    @@ "not-a-date" :>
           <<"n","o","t","-","a","-","d","a","t","e">>
    @@ "2030-01-01T25:00:00Z" :>
           <<"2","0","3","0","-","0","1","-","0","1","T","2","5",":","0","0",":","0","0","Z">>
    @@ "2030-01-01T00:00:00+00:00Z" :>
           <<"2","0","3","0","-","0","1","-","0","1","T","0","0",":","0","0",":","0","0","+","0","0",":","0","0","Z">>
    @@ "2030-01-01 09:30-05:00" :>
           <<"2","0","3","0","-","0","1","-","0","1"," ","0","9",":","3","0","-","0","5",":","0","0">>

\* The string whose characters are cs
Intern(cs) == CHOOSE s \in DOMAIN Text : Text[s] = cs

\* The characters of str(x), for an Optional[str] x
PyStr(s) == IF s = None THEN Text["None"] ELSE Text[s]

UpperCase == <<"A","B","C","D","E","F","G","H","I","J","K","L","M",
               "N","O","P","Q","R","S","T","U","V","W","X","Y","Z">>
LowerCase == <<"a","b","c","d","e","f","g","h","i","j","k","l","m",
               "n","o","p","q","r","s","t","u","v","w","x","y","z">>
Digits == <<"0","1","2","3","4","5","6","7","8","9">>

IsSpace(c) == c \in {" ", "\t", "\n", "\r"}
IsUpper(c) == \E i \in DOMAIN UpperCase : UpperCase[i] = c
IsLower(c) == \E i \in DOMAIN LowerCase : LowerCase[i] = c
IsDigit(c) == \E i \in DOMAIN Digits : Digits[i] = c
DigitVal(c) == (CHOOSE i \in DOMAIN Digits : Digits[i] = c) - 1
LowerChar(c) == IF IsUpper(c)
                THEN LowerCase[CHOOSE i \in DOMAIN UpperCase : UpperCase[i] = c]
                ELSE c

\* str.lower()
Lower(s) == [i \in DOMAIN s |-> LowerChar(s[i])]

RECURSIVE LStrip(_)
LStrip(s) == IF s # <<>> /\ IsSpace(Head(s)) THEN LStrip(Tail(s)) ELSE s
RECURSIVE RStrip(_)
RStrip(s) == IF s # <<>> /\ IsSpace(s[Len(s)])
             THEN RStrip(SubSeq(s, 1, Len(s) - 1)) ELSE s
\* str.strip()
Strip(s) == RStrip(LStrip(s))

IsQuote(c) == c \in {"\"", "'"}
RECURSIVE LStripQuotes(_)
LStripQuotes(s) == IF s # <<>> /\ IsQuote(Head(s)) THEN LStripQuotes(Tail(s)) ELSE s
RECURSIVE RStripQuotes(_)
RStripQuotes(s) == IF s # <<>> /\ IsQuote(s[Len(s)])
                   THEN RStripQuotes(SubSeq(s, 1, Len(s) - 1)) ELSE s
\* str.strip("\"'")
StripQuotes(s) == RStripQuotes(LStripQuotes(s))

\* re.sub(r"\s+", " ", s): every maximal run of whitespace becomes one space.
RECURSIVE CollapseSpaces(_)
CollapseSpaces(s) ==
    IF s = <<>> THEN <<>>
    ELSE IF IsSpace(Head(s))
         THEN <<" ">> \o CollapseSpaces(LStrip(s))
         ELSE <<Head(s)>> \o CollapseSpaces(Tail(s))

\* workflow._normalize
Normalize(s) == CollapseSpaces(Lower(Strip(s)))

\* t occurs in s at position i (1-based)
OccursAt(t, s, i) == /\ i >= 1
                     /\ i + Len(t) - 1 <= Len(s)
                     /\ SubSeq(s, i, i + Len(t) - 1) = t
\* Python's "t in s" for strings
Contains(s, t) == \E i \in 1..(Len(s) + 1) : OccursAt(t, s, i)

\* str.split(): the maximal runs of non-whitespace, in order.
RECURSIVE TakeWord(_)
TakeWord(s) == IF s = <<>> \/ IsSpace(Head(s)) THEN <<>>
               ELSE <<Head(s)>> \o TakeWord(Tail(s))
RECURSIVE SplitWords(_)
SplitWords(s) ==
    LET t == LStrip(s)
        w == TakeWord(t)
    IN IF t = <<>> THEN <<>>
       ELSE <<w>> \o SplitWords(SubSeq(t, Len(w) + 1, Len(t)))

\* s[:n] of a list
Take(s, n) == SubSeq(s, 1, IF Len(s) < n THEN Len(s) ELSE n)

(***************************************************************************)
(* Payee resolution: workflow._best_contact_match                          *)
(***************************************************************************)
ConfEmail == 100
ConfExact == 95
ConfSubstring == 80
ConfToken == 60
ConfNone == 0
MaxCandidates == 5

\* The keys under which a contacts payload may hold its list.
ContactKeys == {"contacts", "data", "items", "results"}

\* The list the resolver scans: the payload's list when it sits under a
\* recognised key, else nothing.
ContactItems(payload) ==
    IF payload.key \in ContactKeys THEN payload.list ELSE <<>>

\* c.get("id") or c.get("contactId") or "", as str
ContactIdOf(c) == IF Truthy(c.id) THEN c.id
                  ELSE IF Truthy(c.contactId) THEN c.contactId ELSE ""
\* c.get("name") or c.get("displayName")
ContactNameOf(c) == IF Truthy(c.name) THEN c.name
                    ELSE IF c.displayName = Absent THEN None ELSE c.displayName
\* c.get("email")
ContactEmailOf(c) == IF c.email = Absent THEN None ELSE c.email
\* _normalize(str(c.get("email", "")))
ContactEmailKey(c) == Normalize(IF c.email = Absent THEN <<>> ELSE PyStr(c.email))
\* _normalize(str(c.get("name") or c.get("displayName") or ""))
ContactNameKey(c) ==
    Normalize(IF Truthy(c.name) THEN Text[c.name]
              ELSE IF Truthy(c.displayName) THEN Text[c.displayName] ELSE <<>>)

EmailMatches(c, email) == ContactEmailKey(c) = Normalize(Text[email])

\* The score of one contact against the normalized name hint n; 0 = excluded.
NameScore(c, n) ==
    LET cn == ContactNameKey(c)
    IN IF cn = <<>> THEN ConfNone
       ELSE IF cn = n THEN ConfExact
       ELSE IF Contains(cn, n) \/ Contains(n, cn) THEN ConfSubstring
       ELSE IF \E k \in DOMAIN SplitWords(n) : Contains(cn, SplitWords(n)[k])
            THEN ConfToken
       ELSE ConfNone

\* The positions of items, in order, whose score is exactly sc.
RECURSIVE ScoredAt(_, _, _, _)
ScoredAt(items, n, sc, i) ==
    IF i > Len(items) THEN <<>>
    ELSE (IF NameScore(items[i], n) = sc THEN <<i>> ELSE <<>>)
         \o ScoredAt(items, n, sc, i + 1)

\* scored.sort(key=score, reverse=True): a stable sort, so contacts of equal
\* score keep their input order. The result lists input positions.
ScoredSorted(items, n) ==
    ScoredAt(items, n, ConfExact, 1) \o ScoredAt(items, n, ConfSubstring, 1)
        \o ScoredAt(items, n, ConfToken, 1)

NoMatch(items, name, email) ==
    [contact_id |-> None, name |-> name, email |-> email,
     match_confidence |-> ConfNone, candidates |-> Take(items, MaxCandidates)]

NameMatch(items, name, email) ==
    LET n == Normalize(Text[name])
        order == ScoredSorted(items, n)
        top == items[order[1]]
    IN IF order = <<>> THEN NoMatch(items, name, email)
       ELSE [contact_id |-> ContactIdOf(top), name |-> ContactNameOf(top),
             email |-> ContactEmailOf(top),
             match_confidence |-> NameScore(top, n),
             candidates |-> [k \in 1..Len(Take(order, MaxCandidates)) |-> items[order[k]]]]

\* The name hint is tried before the email hint.
M_BestContactMatch(payload, name, email) ==
    LET items == ContactItems(payload)
        hits == {i \in DOMAIN items : EmailMatches(items[i], email)}
        first == CHOOSE i \in hits : \A j \in hits : i <= j
    IN IF Truthy(name) /\ ScoredSorted(items, Normalize(Text[name])) # <<>>
       THEN NameMatch(items, name, email)
       ELSE IF Truthy(email) /\ hits # {}
       THEN [contact_id |-> ContactIdOf(items[first]),
             name |-> ContactNameOf(items[first]),
             email |-> ContactEmailOf(items[first]),
             match_confidence |-> ConfEmail,
             candidates |-> <<items[first]>>]
       ELSE NoMatch(items, name, email)

BestContactMatch(payload, name, email) ==
    LET items == ContactItems(payload)
        hits == {i \in DOMAIN items : EmailMatches(items[i], email)}
        first == CHOOSE i \in hits : \A j \in hits : i <= j
    IN IF Truthy(email) /\ hits # {}
       THEN [contact_id |-> ContactIdOf(items[first]),
             name |-> ContactNameOf(items[first]),
             email |-> ContactEmailOf(items[first]),
             match_confidence |-> ConfEmail,
             candidates |-> <<items[first]>>]
       ELSE IF Truthy(name) THEN NameMatch(items, name, email)
       ELSE NoMatch(items, name, email)

(***************************************************************************)
(* Funding-method selection: workflow._pick_funding_method_id              *)
(***************************************************************************)
\* The keys under which a funding-methods payload may hold its list.
FundingKeys == {"fundingMethods", "data", "items"}

FundingItems(payload) ==
    IF payload.key \in FundingKeys THEN payload.list ELSE <<>>

\* The positions of the methods that carry an id (m.get("id") is not None).
WithId(methods) == {i \in DOMAIN methods : methods[i].id # None}

\* The preference is ignored: always the first method with an id.
M_PickFundingMethodId(payload, preferred_id) ==
    LET methods == FundingItems(payload)
        first == CHOOSE i \in WithId(methods) : \A j \in WithId(methods) : i <= j
    IN IF WithId(methods) # {} THEN methods[first].id ELSE None

PickFundingMethodId(payload, preferred_id) ==
    LET methods == FundingItems(payload)
        ids == {methods[i].id : i \in WithId(methods)}
        first == CHOOSE i \in WithId(methods) : \A j \in WithId(methods) : i <= j
    IN IF Truthy(preferred_id) /\ preferred_id \in ids THEN preferred_id
       ELSE IF WithId(methods) # {} THEN methods[first].id
       ELSE None

(***************************************************************************)
(* Command parsing: workflow.parse_payment_command                         *)
(***************************************************************************)
\* \w of the regular expressions
IsWordChar(c) == IsUpper(c) \/ IsLower(c) \/ IsDigit(c) \/ c = "_"
\* The class [A-Za-z0-9 .,'"\-] of _TO_RE, the double quote being a member of
\* the class (line 17 writes it unescaped inside the r"..." literal).
IsNameChar(c) == IsUpper(c) \/ IsLower(c) \/ IsDigit(c)
                 \/ c \in {" ", ".", ",", "'", "\"", "-"}

\* The length of the longest prefix of s[i..] whose characters satisfy P.
RECURSIVE DigitRun(_, _)
DigitRun(s, i) == IF i <= Len(s) /\ IsDigit(s[i]) THEN 1 + DigitRun(s, i + 1) ELSE 0
RECURSIVE SpaceRun(_, _)
SpaceRun(s, i) == IF i <= Len(s) /\ IsSpace(s[i]) THEN 1 + SpaceRun(s, i + 1) ELSE 0
RECURSIVE NameRun(_, _)
NameRun(s, i) == IF i <= Len(s) /\ IsNameChar(s[i]) THEN 1 + NameRun(s, i + 1) ELSE 0

\* int(digits), for the digits s[i..i+n-1]
RECURSIVE DigitsValue(_, _, _)
DigitsValue(s, i, n) ==
    IF n = 0 THEN 0 ELSE DigitsValue(s, i, n - 1) * 10 + DigitVal(s[i + n - 1])

\* _AMOUNT_RE.search(command) and float(m.group(1)), in cents: the first run
\* of digits, with a fraction of one or two digits when a "." and a digit
\* follow it. NoneAmt when the command holds no digit.
ParseAmount(command) ==
    LET ds == {i \in DOMAIN command : IsDigit(command[i])}
        p == CHOOSE i \in ds : \A j \in ds : i <= j
        n == DigitRun(command, p)
        q == p + n
        hasFrac == q + 1 <= Len(command) /\ command[q] = "." /\ IsDigit(command[q + 1])
        two == hasFrac /\ q + 2 <= Len(command) /\ IsDigit(command[q + 2])
        frac == IF ~hasFrac THEN 0
                ELSE IF two THEN DigitsValue(command, q + 1, 2)
                ELSE DigitVal(command[q + 1]) * 10
    IN IF ds = {} THEN NoneAmt ELSE DigitsValue(command, p, n) * 100 + frac

\* "to" as a whole word at position i, whatever its letter case, followed by
\* whitespace: \bto\b\s+ of _TO_RE.
ToAt(command, i) ==
    /\ i + 2 <= Len(command)
    /\ LowerChar(command[i]) = "t"
    /\ LowerChar(command[i + 1]) = "o"
    /\ (i = 1 \/ ~IsWordChar(command[i - 1]))
    /\ IsSpace(command[i + 2])

NoGroup == <<"<no match>">>

\* group(1) of _TO_RE matched at position i, or NoGroup when the expression
\* does not match there. After the whitespace the class needs one character:
\* when none follows the whitespace run, \s+ gives back a space of the run
\* (the only whitespace the class holds) and the group is that space.
ToGroupAt(command, i) ==
    LET k == SpaceRun(command, i + 2)
        j == i + 2 + k
        n == NameRun(command, j)
    IN IF ~ToAt(command, i) THEN NoGroup
       ELSE IF n > 0 THEN SubSeq(command, j, j + n - 1)
       ELSE IF \E q \in (i + 3)..(j - 1) : command[q] = " " THEN <<" ">>
       ELSE NoGroup

\* m2.group(1).strip().strip("\"'") of the leftmost match, None without one.
PayeeNameChars(command) ==
    LET ms == {i \in DOMAIN command : ToGroupAt(command, i) # NoGroup}
        p == CHOOSE i \in ms : \A j \in ms : i <= j
    IN IF ms = {} THEN NoGroup ELSE StripQuotes(Strip(ToGroupAt(command, p)))

\* The same, as a string
ParsePayeeName(command) ==
    IF PayeeNameChars(command) = NoGroup THEN None
    ELSE Intern(PayeeNameChars(command))

ForMarker == <<" ", "f", "o", "r", " ">>

\* The marker test is made on command.lower(), the split on command itself.
HasForLower(command) == Contains(Lower(command), ForMarker)
HasForExact(command) == Contains(command, ForMarker)

\* command.split(" for ", 1)[1].strip()
AfterForChars(command) ==
    LET ps == {i \in DOMAIN command : OccursAt(ForMarker, command, i)}
        p == CHOOSE i \in ps : \A j \in ps : i <= j
    IN Strip(SubSeq(command, p + Len(ForMarker), Len(command)))

\* The same, as a string
AfterFor(command) == Intern(AfterForChars(command))

\* split(" for ", 1) yields one part when the command holds the marker only
\* in another letter case, and [1] then raises IndexError.
CommandRaises(command) == HasForLower(command) /\ ~HasForExact(command)
ParseRaises(text) == CommandRaises(Text[text])

\* parse_payment_command on the characters of a command, where it does not
\* raise; NoGroup stands for None in payee_name and purpose.
ParsedChars(command) ==
    [amount |-> ParseAmount(command),
     payee_name |-> PayeeNameChars(command),
     purpose |-> IF HasForLower(command) /\ HasForExact(command)
                 THEN AfterForChars(command) ELSE NoGroup]

\* parse_payment_command(text), where it does not raise
ParsePaymentCommand(text) ==
    LET command == Text[text]
    IN [amount |-> ParseAmount(command),
        payee_name |-> ParsePayeeName(command),
        purpose |-> IF HasForLower(command) /\ HasForExact(command)
                    THEN AfterFor(command) ELSE None]

(***************************************************************************)
(* Drafts, errors and response envelopes                                   *)
(***************************************************************************)
ConfirmBelow == 95
UncertainBelow == 80

A_Hint(hint) == "Used currency hint '" \o hint \o "'."
A_Usd == "Defaulted currency to USD."
A_Uncertain == "Payee match is uncertain; please confirm."
A_History == "Inferred funding method from past payments."
A_Purpose == "Defaulted purpose to 'Invoice payment'."

InvoicePayment == "Invoice payment"
Description == "Payment created by Invoice AI (POC)"
AccountId == "acct"

\* str(uuid.uuid4()): the n-th token drawn; no two draws yield the same token.
Uuid(n) == <<"uuid", n>>
NoToken == <<"none", 0>>

\* A draft is flagged only below the threshold of the uncertainty note.
M_NeedsConfirmation(assumptions, missing, confidence) ==
    assumptions # <<>> \/ missing # <<>> \/ confidence < UncertainBelow

\* needs_confirmation of a draft under construction
NeedsConfirmation(assumptions, missing, confidence) ==
    assumptions # <<>> \/ missing # <<>> \/ confidence < ConfirmBelow

\* ResolvedPayee(): the defaults of the model
ResolvedDefault ==
    [contact_id |-> None, name |-> None, email |-> None,
     match_confidence |-> ConfNone, candidates |-> <<>>]

\* The payload prepare_payment proposes.
ProposedPayload(resolved, payee_name, payee_email, amount, currency, purpose, fm_id, idem_key) ==
    [accountId |-> AccountId,
     recipient |-> [email |-> OrElse(resolved.email, payee_email),
                    name |-> OrElse(resolved.name, payee_name)],
     amount |-> [number |-> amount, currency |-> currency],
     purpose |-> purpose,
     fundingMethod |-> fm_id,
     description |-> Description,
     idempotencyKey |-> idem_key]

NoDetails == [reason |-> None, missing |-> <<>>, error |-> ""]
NoDraft == [draft_id |-> NoToken]

\* responses.ok
Ok(tool, data, request_id) ==
    [ok |-> TRUE, tool |-> tool, request_id |-> request_id, data |-> data,
     code |-> "", details |-> NoDetails]
\* responses.fail
Fail(tool, code, details, request_id) ==
    [ok |-> FALSE, tool |-> tool, request_id |-> request_id, data |-> NoDraft,
     code |-> code, details |-> details]
\* The except Exception branch of an exposed operation.
Unhandled(tool, exc, request_id) ==
    Fail(tool, "UNHANDLED", [NoDetails EXCEPT !.error = exc], request_id)

NoResponse == [ok |-> FALSE, tool |-> "", request_id |-> NoToken, data |-> NoDraft,
               code |-> "", details |-> NoDetails]

(***************************************************************************)
(* State                                                                   *)
(***************************************************************************)
VARIABLES
    pc,        \* where the running operation stands: "idle", an await, "done"
    req,       \* the arguments of the running operation
    loc,       \* the local variables of the running operation
    calls,     \* the calls made to external collaborators, in order
    response,  \* the envelope returned by the operation
    uuids,     \* how many uuid4 tokens have been drawn
    rows,      \* the rows of the scheduled_payments table
    issued     \* the drafts prepare_payment has returned so far, with their calls

vars == <<pc, req, loc, calls, response, uuids, rows, issued>>

NoReq == [tool |-> ""]
NoLoc == [none |-> TRUE]

Call(fn, arg) == [fn |-> fn, arg |-> arg]
NoArg == <<>>

InitState ==
    /\ pc = "idle"
    /\ req = NoReq
    /\ loc = NoLoc
    /\ calls = <<>>
    /\ response = NoResponse
    /\ uuids = 0
    /\ rows = <<>>
    /\ issued = <<>>

(***************************************************************************)
(* payment_prepare and workflow.prepare_payment                            *)
(***************************************************************************)
NoInvoice == [present |-> FALSE]

\* The reason is left out of the error.
M_UnprocessableDetails(invoice) == NoDetails

\* details={"reason": invoice.reason}
UnprocessableDetails(invoice) == [NoDetails EXCEPT !.reason = invoice.reason]

\* The caller's id is dropped: a fresh token is always drawn.
M_RequestId(rid, n) == Uuid(n + 1)

\* request_id or str(uuid.uuid4())
RequestId(rid, n) == IF rid = NoToken THEN Uuid(n + 1) ELSE rid
Drawn(rid) == IF rid = NoToken THEN 1 ELSE 0

\* The two tokens are drawn once and kept for every call.
M_DraftTokens(n) == [draft_id |-> Uuid(1), idem_key |-> Uuid(2)]

\* draft_id and idem_key: two fresh uuid4 tokens per call, drawn after the
\* n tokens drawn before.
DraftTokens(n) == [draft_id |-> Uuid(n + 1), idem_key |-> Uuid(n + 2)]

\* Lines 144-156: the invoice's fields; with a command, "field or parsed"
\* replaces every field the invoice left falsy (None, 0.0 or "").
MergedAmount(invoice, hasCommand, parsed) ==
    LET a == IF invoice.present THEN invoice.amount ELSE NoneAmt
    IN IF hasCommand THEN OrElseAmt(a, parsed.amount) ELSE a
MergedName(invoice, hasCommand, parsed) ==
    LET x == IF invoice.present THEN invoice.name ELSE None
    IN IF hasCommand THEN OrElse(x, parsed.payee_name) ELSE x
MergedPurpose(invoice, hasCommand, parsed) ==
    LET x == IF invoice.present THEN invoice.purpose ELSE None
    IN IF hasCommand THEN OrElse(x, parsed.purpose) ELSE x

NotParsed == [amount |-> NoneAmt, payee_name |-> None, purpose |-> None]

\* The hint is adopted although the invoice states a currency.
M_CurrencyOf(invoice, hint) ==
    LET c == IF invoice.present THEN invoice.currency ELSE None
    IN IF Truthy(hint) THEN hint ELSE IF Truthy(c) THEN c ELSE "USD"

\* Lines 158-160 and 168-170: the currency and the assumptions it records.
CurrencyOf(invoice, hint) ==
    LET c == IF invoice.present THEN invoice.currency ELSE None
    IN IF Truthy(c) THEN c ELSE IF Truthy(hint) THEN hint ELSE "USD"
CurrencyAssumptions(invoice, hint) ==
    LET c == IF invoice.present THEN invoice.currency ELSE None
    IN IF Truthy(c) THEN <<>>
       ELSE IF Truthy(hint) THEN <<A_Hint(hint)>> ELSE <<A_Usd>>

\* The payee is tested before the amount.
M_MissingAtMerge(amount, payee_name, payee_email) ==
    (IF ~(Truthy(payee_name) \/ Truthy(payee_email)) THEN <<"payee">> ELSE <<>>)
    \o (IF ~TruthyAmt(amount) THEN <<"amount">> ELSE <<>>)

\* Lines 162-165
MissingAtMerge(amount, payee_name, payee_email) ==
    (IF ~TruthyAmt(amount) THEN <<"amount">> ELSE <<>>)
    \o (IF ~(Truthy(payee_name) \/ Truthy(payee_email)) THEN <<"payee">> ELSE <<>>)

\* payment_prepare up to its first await: the bad-request and
\* unprocessable-document errors, the merge of invoice and command, the
\* currency, the missing fields, and the call of list_contacts.
PaymentPrepare(command, invoice, currency_hint, request_id) ==
    LET rid == RequestId(request_id, uuids)
        n0 == uuids + Drawn(request_id)
        hasCommand == Truthy(command)
        parsed == IF hasCommand THEN ParsePaymentCommand(command) ELSE NotParsed
        amount == MergedAmount(invoice, hasCommand, parsed)
        payee_name == MergedName(invoice, hasCommand, parsed)
        payee_email == IF invoice.present THEN invoice.email ELSE None
    IN
    /\ pc = "idle"
    /\ req' = [tool |-> "payment_prepare", command |-> command, invoice |-> invoice,
               currency_hint |-> currency_hint, request_id |-> request_id]
    /\ UNCHANGED <<rows, issued>>
    /\ IF ~hasCommand /\ ~invoice.present
       THEN /\ response' = Fail("payment_prepare", "BAD_REQUEST", NoDetails, rid)
            /\ pc' = "done"
            /\ uuids' = n0
            /\ UNCHANGED <<loc, calls>>
       ELSE IF invoice.present /\ ~invoice.processable
       THEN /\ response' = Fail("payment_prepare", "UNPROCESSABLE_DOCUMENT",
                                UnprocessableDetails(invoice), rid)
            /\ pc' = "done"
            /\ uuids' = n0 + 2
            /\ UNCHANGED <<loc, calls>>
       ELSE IF hasCommand /\ ParseRaises(command)
       THEN /\ response' = Unhandled("payment_prepare", "IndexError", rid)
            /\ pc' = "done"
            /\ uuids' = n0 + 2
            /\ UNCHANGED <<loc, calls>>
       ELSE /\ loc' = [request_id |-> rid,
                       draft_id |-> DraftTokens(n0).draft_id,
                       idem_key |-> DraftTokens(n0).idem_key,
                       payee_name |-> payee_name,
                       payee_email |-> payee_email,
                       amount |-> amount,
                       currency |-> CurrencyOf(invoice, currency_hint),
                       purpose |-> MergedPurpose(invoice, hasCommand, parsed),
                       assumptions |-> CurrencyAssumptions(invoice, currency_hint),
                       missing |-> MissingAtMerge(amount, payee_name, payee_email),
                       resolved |-> ResolvedDefault,
                       funding_methods |-> [key |-> "", list |-> <<>>],
                       history |-> "not asked",
                       preferred_fm |-> None,
                       fm_id |-> None]
            /\ calls' = Append(calls, Call("list_contacts", NoArg))
            /\ pc' = "list_contacts"
            /\ uuids' = n0 + 2
            /\ response' = response

\* The awaited call is made again when it raises.
M_PrepareAborts(at, exc) ==
    /\ pc = at
    /\ Len(calls) < 4
    /\ calls' = Append(calls, Call(at, NoArg))
    /\ UNCHANGED <<pc, req, loc, response, uuids, rows, issued>>


\* An awaited collaborator call raises: the exception reaches the except
\* Exception branch of payment_prepare.
PrepareAborts(at, exc) ==
    /\ pc = at
    /\ response' = Unhandled("payment_prepare", exc, loc.request_id)
    /\ pc' = "done"
    /\ UNCHANGED <<req, loc, calls, uuids, rows, issued>>

\* A substring match counts as uncertain too.
M_Uncertain(confidence) == confidence <= UncertainBelow

\* resolved.match_confidence < 0.8
Uncertain(confidence) == confidence < UncertainBelow

\* list_contacts returns: lines 174-179.
ContactsReturn(payload) ==
    LET resolved == BestContactMatch(payload, loc.payee_name, loc.payee_email)
    IN
    /\ pc = "list_contacts"
    /\ loc' = [loc EXCEPT
                 !.resolved = resolved,
                 !.assumptions = IF Uncertain(resolved.match_confidence)
                                 THEN Append(@, A_Uncertain) ELSE @]
    /\ calls' = Append(calls, Call("list_funding_methods", NoArg))
    /\ pc' = "list_funding_methods"
    /\ UNCHANGED <<req, response, uuids, rows, issued>>

ContactsRaises == PrepareAborts("list_contacts", "VeemApiError")

\* Lines 186-218: the selection, the purpose default, the payload and the
\* draft, from the locals l once preferred_fm is known.
FinishDraft(l) ==
    LET fm_id == PickFundingMethodId(l.funding_methods, l.preferred_fm)
        a1 == IF Truthy(l.preferred_fm) THEN Append(l.assumptions, A_History)
              ELSE l.assumptions
        missing == IF ~Truthy(fm_id) THEN Append(l.missing, "funding_method_id")
                   ELSE l.missing
        purpose == IF Truthy(l.purpose) THEN l.purpose ELSE InvoicePayment
        assumptions == IF Truthy(l.purpose) THEN a1 ELSE Append(a1, A_Purpose)
    IN [draft_id |-> l.draft_id,
        idempotency_key |-> l.idem_key,
        payee |-> l.resolved,
        amount |-> l.amount,
        currency |-> l.currency,
        purpose |-> purpose,
        funding_method_id |-> fm_id,
        needs_confirmation |->
            NeedsConfirmation(assumptions, missing, l.resolved.match_confidence),
        assumptions |-> assumptions,
        missing_fields |-> missing,
        proposed_payment_payload |->
            ProposedPayload(l.resolved, l.payee_name, l.payee_email, l.amount,
                            l.currency, purpose, fm_id, l.idem_key)]

ReturnDraft(l) ==
    LET draft == FinishDraft(l)
    IN /\ loc' = [l EXCEPT !.fm_id = draft.funding_method_id,
                            !.assumptions = draft.assumptions,
                            !.missing = draft.missing_fields,
                            !.purpose = draft.purpose]
       /\ response' = Ok("payment_prepare", draft, l.request_id)
       /\ issued' = Append(issued, [req |-> req, draft_id |-> draft.draft_id,
                                    idempotency_key |-> draft.idempotency_key])
       /\ pc' = "done"

\* The history store is asked for every resolved payee.
M_AsksHistory(resolved) == TRUE

\* if resolved.email:
AsksHistory(resolved) == Truthy(resolved.email)

\* list_funding_methods returns: the history lookup is awaited when the
\* resolved payee has an email, else the draft is finished at once.
FundingReturn(payload) ==
    LET l == [loc EXCEPT !.funding_methods = payload]
    IN
    /\ pc = "list_funding_methods"
    /\ IF AsksHistory(l.resolved)
       THEN /\ calls' = Append(calls, Call("last_funding_method_id_for_payee",
                                           l.resolved.email))
            /\ loc' = l
            /\ pc' = "history"
            /\ UNCHANGED <<response, issued>>
       ELSE /\ ReturnDraft(l)
            /\ calls' = calls
    /\ UNCHANGED <<req, uuids, rows>>

FundingRaises == PrepareAborts("list_funding_methods", "VeemApiError")

(***************************************************************************)
(* The payment-history store: adapters/stores/mysql_history_store.py       *)
(***************************************************************************)
\* What last_funding_method_id_for_payee does in a deployment h:
\*   h.configured  the four MySQL settings are set (else the null store, or
\*                 the MySQL store's early return, answers None);
\*   h.driver      mysql.connector can be imported: the import stands before
\*                 the try, so its failure leaves the method as an exception;
\*   h.db          "down" (connect or execute raises: caught, None), "empty"
\*                 (no row: None), or the funding-method id of the last row.
Raised == "<raised>"
LastFundingMethodIdForPayee(h) ==
    IF ~h.configured THEN None
    ELSE IF ~h.driver THEN Raised
    ELSE IF h.db \in {"down", "empty"} THEN None
    ELSE h.db

\* The lookup returns: lines 183-218.
HistoryReturn(h) ==
    /\ pc = "history"
    /\ LastFundingMethodIdForPayee(h) # Raised
    /\ ReturnDraft([loc EXCEPT !.preferred_fm = LastFundingMethodIdForPayee(h),
                               !.history = "returned"])
    /\ UNCHANGED <<req, calls, uuids, rows>>

\* The lookup raises: prepare_payment has no handler around the await, so
\* the exception leaves it and payment_prepare reports it.
HistoryRaises(h) ==
    /\ pc = "history"
    /\ LastFundingMethodIdForPayee(h) = Raised
    /\ loc' = [loc EXCEPT !.history = "raised"]
    /\ response' = Unhandled("payment_prepare", "ModuleNotFoundError", loc.request_id)
    /\ pc' = "done"
    /\ UNCHANGED <<req, calls, uuids, rows, issued>>

(***************************************************************************)
(* Inputs                                                                  *)
(***************************************************************************)
MaxContacts == 2
MaxMethods == 2

Commands == {None, "Pay $50 to Sam for rent", "pay 0 to Al", "Pay 7 FOR x"}

Invoices ==
    {NoInvoice}
    \cup {[present |-> TRUE, processable |-> FALSE, reason |-> r, name |-> None,
           email |-> None, amount |-> NoneAmt, currency |-> None, purpose |-> None]
          : r \in {None, "no amount found"}}
    \cup [present : {TRUE}, processable : {TRUE}, reason : {None},
          name : {None, "Sam"}, email : {None, " A@X"},
          amount : {NoneAmt, 0, 5000}, currency : {None, "EUR"},
          purpose : {None, "rent"}]

CurrencyHints == {None, "CAD"}
RequestIds == {NoToken, <<"caller", 1>>}

Contact(id, contactId, name, displayName, email) ==
    [id |-> id, contactId |-> contactId, name |-> name,
     displayName |-> displayName, email |-> email]

ContactPool ==
    {Contact("c1", None, "Sam Ex", Absent, "a@x"),
     Contact("c2", None, "Sam", Absent, Absent)}

\* Every list of at most n elements of S
ListsOver(S, n) == UNION {[1..k -> S] : k \in 0..n}

ContactPayloads ==
    {[key |-> "contacts", list |-> l] : l \in ListsOver(ContactPool, MaxContacts)}
    \cup {[key |-> "unknown", list |-> <<Contact("c1", None, "Sam Ex", Absent, "a@x")>>]}

MethodPool == {[id |-> None], [id |-> "fm_1"], [id |-> "fm_2"]}

FundingPayloads ==
    {[key |-> "fundingMethods", list |-> l] : l \in ListsOver(MethodPool, MaxMethods)}
    \cup {[key |-> "unknown", list |-> <<[id |-> "fm_1"]>>]}

HistoryEnvs ==
    {[configured |-> FALSE, driver |-> FALSE, db |-> "empty"],
     [configured |-> TRUE, driver |-> FALSE, db |-> "empty"]}
    \cup [configured : {TRUE}, driver : {TRUE}, db : {"down", "empty", "fm_2", "fm_9"}]

(***************************************************************************)
(* payment_prepare as a state machine                                      *)
(***************************************************************************)
Init == InitState

\* Each disjunct states its position first, so that the inputs are only
\* enumerated where the step can be taken.
Next ==
    \/ pc = "idle" /\ \E c \in Commands, i \in Invoices, h \in CurrencyHints,
                          r \in RequestIds : PaymentPrepare(c, i, h, r)
    \/ pc = "list_contacts" /\ \E p \in ContactPayloads : ContactsReturn(p)
    \/ ContactsRaises
    \/ pc = "list_funding_methods" /\ \E p \in FundingPayloads : FundingReturn(p)
    \/ FundingRaises
    \/ pc = "history" /\ \E h \in HistoryEnvs : HistoryReturn(h)
    \/ pc = "history" /\ \E h \in HistoryEnvs : HistoryRaises(h)

Spec == Init /\ [][Next]_vars

(***************************************************************************)
(* payment_submit and workflow.submit_payment                              *)
(***************************************************************************)
AbsentToken == <<"absent", 0>>

\* A draft that still needs confirmation is turned away as well.
M_SubmitGate(draft) ==
    (IF ~TruthyAmt(draft.amount) THEN <<"amount">> ELSE <<>>)
    \o (IF ~Truthy(draft.currency) THEN <<"currency">> ELSE <<>>)
    \o (IF ~(Truthy(draft.payee.email) \/ Truthy(draft.payee.name))
        THEN <<"payee">> ELSE <<>>)
    \o (IF ~Truthy(draft.funding_method_id) THEN <<"funding_method_id">> ELSE <<>>)
    \o (IF draft.needs_confirmation THEN <<"confirmation">> ELSE <<>>)


\* The names the gate reports: lines 223-231.
SubmitGate(draft) ==
    (IF ~TruthyAmt(draft.amount) THEN <<"amount">> ELSE <<>>)
    \o (IF ~Truthy(draft.currency) THEN <<"currency">> ELSE <<>>)
    \o (IF ~(Truthy(draft.payee.email) \/ Truthy(draft.payee.name))
        THEN <<"payee">> ELSE <<>>)
    \o (IF ~Truthy(draft.funding_method_id) THEN <<"funding_method_id">> ELSE <<>>)

\* payload.get("purpose")
PreviewPurpose(preview) == IF preview.purpose = Absent THEN None ELSE preview.purpose

\* Lines 236-244: a copy of the proposed payload in which amount,
\* fundingMethod, purpose and recipient are set anew; the purpose falls back
\* on the copy's own when the draft's is falsy.
SubmitPayload(draft) ==
    LET preview == draft.proposed_payment_payload
    IN [accountId |-> preview.accountId,
        recipient |-> [email |-> draft.payee.email, name |-> draft.payee.name,
                       contactId |-> draft.payee.contact_id],
        amount |-> [number |-> draft.amount, currency |-> draft.currency],
        purpose |-> OrElse(draft.purpose, PreviewPurpose(preview)),
        fundingMethod |-> draft.funding_method_id,
        description |-> preview.description,
        idempotencyKey |-> preview.idempotencyKey]

\* raw.get(k)
RawGet(raw, k) == IF raw[k] = Absent THEN None ELSE raw[k]

\* str(raw.get("id") or raw.get("paymentId") or "").strip() or None
PaymentIdOf(raw) ==
    LET v == OrElse(RawGet(raw, "id"), OrElse(RawGet(raw, "paymentId"), ""))
        t == Intern(Strip(PyStr(v)))
    IN IF Truthy(t) THEN t ELSE None

\* raw.get("status") or raw.get("state")
StatusOf(raw) == OrElse(RawGet(raw, "status"), RawGet(raw, "state"))

\* payment_submit up to its await: the gate, then the payload and the call
\* of create_payment.
PaymentSubmit(draft, request_id) ==
    LET rid == RequestId(request_id, uuids)
    IN
    /\ pc = "idle"
    /\ req' = [tool |-> "payment_submit", draft |-> draft, request_id |-> request_id]
    /\ uuids' = uuids + Drawn(request_id)
    /\ UNCHANGED <<rows, issued>>
    /\ IF SubmitGate(draft) # <<>>
       THEN /\ response' = Fail("payment_submit", "MISSING_FIELDS",
                                [NoDetails EXCEPT !.missing = SubmitGate(draft)], rid)
            /\ pc' = "done"
            /\ UNCHANGED <<loc, calls>>
       ELSE /\ loc' = [request_id |-> rid, payload |-> SubmitPayload(draft)]
            /\ calls' = Append(calls, Call("create_payment", SubmitPayload(draft)))
            /\ pc' = "create_payment"
            /\ response' = response

\* create_payment returns: lines 247-250.
CreatePaymentReturn(raw) ==
    /\ pc = "create_payment"
    /\ response' = Ok("payment_submit",
                      [payment_id |-> PaymentIdOf(raw), status |-> StatusOf(raw),
                       raw |-> raw],
                      loc.request_id)
    /\ pc' = "done"
    /\ UNCHANGED <<req, loc, calls, uuids, rows, issued>>

\* create_payment raises: payment_submit reports it.
CreatePaymentRaises ==
    /\ pc = "create_payment"
    /\ response' = Unhandled("payment_submit", "VeemApiError", loc.request_id)
    /\ pc' = "done"
    /\ UNCHANGED <<req, loc, calls, uuids, rows, issued>>

\* The preview a preparation left in the draft, and what a caller may have
\* made of it.
PreviewOf(purpose, key) ==
    [accountId |-> AccountId, recipient |-> [email |-> "a@x", name |-> "Sam Ex"],
     amount |-> [number |-> 5000, currency |-> "USD"], purpose |-> purpose,
     fundingMethod |-> "fm_1", description |-> Description, idempotencyKey |-> key]
\* The emptied preview {}: every key is absent.
EmptyPreview ==
    [accountId |-> Absent, recipient |-> [email |-> Absent, name |-> Absent],
     amount |-> [number |-> NoneAmt, currency |-> Absent],
     purpose |-> Absent, fundingMethod |-> Absent, description |-> Absent,
     idempotencyKey |-> AbsentToken]

Payees ==
    {[contact_id |-> IF e = None THEN None ELSE "c1", name |-> n, email |-> e,
      match_confidence |-> IF e = None THEN ConfNone ELSE ConfEmail,
      candidates |-> <<>>] : n \in {None, "Sam"}, e \in {None, "a@x"}}

\* The drafts a caller may hand in: a prepared draft, with fields edited or
\* cleared after the preparation.
SubmitDrafts ==
    {[draft_id |-> Uuid(1), idempotency_key |-> Uuid(2), payee |-> p,
      amount |-> a, currency |-> c, purpose |-> u, funding_method_id |-> f,
      needs_confirmation |-> nc,
      assumptions |-> IF nc THEN <<A_Usd>> ELSE <<>>,
      missing_fields |-> <<>>,
      proposed_payment_payload |-> pv] :
        p \in Payees, a \in {NoneAmt, 0, 5000}, c \in {None, "", "USD"},
        u \in {None, "rent", "x"}, f \in {None, "fm_1"}, nc \in BOOLEAN,
        pv \in {PreviewOf("rent", Uuid(2)), EmptyPreview}}

RawResponses ==
    [id : {Absent, "pmt_1", "  "}, paymentId : {Absent, " p2 "},
     status : {Absent, "created"}, state : {Absent, "done"}]

NextSubmit ==
    \/ pc = "idle" /\ \E d \in SubmitDrafts, r \in RequestIds : PaymentSubmit(d, r)
    \/ pc = "create_payment" /\ \E raw \in RawResponses : CreatePaymentReturn(raw)
    \/ CreatePaymentRaises

SpecSubmit == Init /\ [][NextSubmit]_vars

(***************************************************************************)
(* payment_schedule and SqliteScheduleStore.create                         *)
(***************************************************************************)
\* run_at_utc.replace("Z", "+00:00")
RECURSIVE ReplaceZ(_)
ReplaceZ(s) ==
    IF s = <<>> THEN <<>>
    ELSE (IF Head(s) = "Z" THEN <<"+","0","0",":","0","0">> ELSE <<Head(s)>>)
         \o ReplaceZ(Tail(s))

\* s[i..i+n-1] are n digits
AreDigits(s, i, n) == i + n - 1 <= Len(s) /\ \A k \in i..(i + n - 1) : IsDigit(s[k])

IsLeap(y) == (y % 4 = 0 /\ y % 100 # 0) \/ y % 400 = 0
DaysIn(y, m) == IF m = 2 THEN (IF IsLeap(y) THEN 29 ELSE 28)
                ELSE IF m \in {4, 6, 9, 11} THEN 30 ELSE 31

\* YYYY-MM-DD at the head of s, a date of the calendar
IsoDate(s) ==
    /\ Len(s) >= 10
    /\ AreDigits(s, 1, 4) /\ s[5] = "-" /\ AreDigits(s, 6, 2)
    /\ s[8] = "-" /\ AreDigits(s, 9, 2)
    /\ DigitsValue(s, 1, 4) >= 1
    /\ DigitsValue(s, 6, 2) \in 1..12
    /\ DigitsValue(s, 9, 2) \in 1..DaysIn(DigitsValue(s, 1, 4), DigitsValue(s, 6, 2))

\* HH:MM, with HH below maxH
IsoHourMinute(s, maxH) ==
    /\ Len(s) = 5
    /\ AreDigits(s, 1, 2) /\ s[3] = ":" /\ AreDigits(s, 4, 2)
    /\ DigitsValue(s, 1, 2) < maxH
    /\ DigitsValue(s, 4, 2) < 60

\* HH, HH:MM or HH:MM:SS
IsoClock(s) ==
    \/ Len(s) = 2 /\ AreDigits(s, 1, 2) /\ DigitsValue(s, 1, 2) < 24
    \/ IsoHourMinute(s, 24)
    \/ /\ Len(s) = 8
       /\ IsoHourMinute(SubSeq(s, 1, 5), 24)
       /\ s[6] = ":" /\ AreDigits(s, 7, 2) /\ DigitsValue(s, 7, 2) < 60

\* A clock, then nothing or an offset +HH:MM or -HH:MM
IsoTime(s) ==
    LET signs == {i \in DOMAIN s : s[i] \in {"+", "-"}}
        p == CHOOSE i \in signs : \A j \in signs : i <= j
    IN IF signs = {} THEN IsoClock(s)
       ELSE /\ IsoClock(SubSeq(s, 1, p - 1))
            /\ IsoHourMinute(SubSeq(s, p + 1, Len(s)), 24)

\* datetime.fromisoformat(s) does not raise, for the formats
\* YYYY-MM-DD[*HH[:MM[:SS]][+HH:MM]] (any one character may separate date
\* and time; fractions of a second and the basic formats are left out).
FromIsoFormatOk(s) ==
    /\ IsoDate(s)
    /\ Len(s) = 10 \/ (Len(s) > 11 /\ IsoTime(SubSeq(s, 12, Len(s))))

\* The validation at the head of SqliteScheduleStore.create passes.
RunAtParses(run_at_utc) == FromIsoFormatOk(ReplaceZ(Text[run_at_utc]))

\* payment_schedule up to its await: the draft is validated and dumped, and
\* the store's create is called with the timestamp as given.
PaymentSchedule(draft, run_at_utc, request_id) ==
    /\ pc = "idle"
    /\ req' = [tool |-> "payment_schedule", draft |-> draft,
               run_at_utc |-> run_at_utc, request_id |-> request_id]
    /\ loc' = [request_id |-> RequestId(request_id, uuids)]
    /\ uuids' = uuids + Drawn(request_id)
    /\ calls' = Append(calls, Call("schedule_store.create",
                                   [draft |-> draft, run_at_utc |-> run_at_utc]))
    /\ pc' = "schedule_store.create"
    /\ UNCHANGED <<response, rows, issued>>

\* SqliteScheduleStore.create on a timestamp that parses: the row is
\* inserted and the new row's id returned.
StoreCreateReturns ==
    LET arg == calls[Len(calls)].arg
        id == Len(rows) + 1
    IN
    /\ pc = "schedule_store.create"
    /\ RunAtParses(arg.run_at_utc)
    /\ rows' = Append(rows, [id |-> id, run_at_utc |-> arg.run_at_utc,
                             draft |-> arg.draft, status |-> "scheduled"])
    /\ response' = Ok("payment_schedule",
                      [schedule_id |-> id, status |-> "scheduled",
                       run_at_utc |-> arg.run_at_utc],
                      loc.request_id)
    /\ pc' = "done"
    /\ UNCHANGED <<req, loc, calls, uuids, issued>>

\* SqliteScheduleStore.create on a timestamp that does not parse:
\* fromisoformat raises ValueError before the database is opened, and
\* payment_schedule reports it in its except Exception branch.
StoreCreateRejects ==
    /\ pc = "schedule_store.create"
    /\ ~RunAtParses(calls[Len(calls)].arg.run_at_utc)
    /\ response' = Unhandled("payment_schedule", "ValueError", loc.request_id)
    /\ pc' = "done"
    /\ UNCHANGED <<req, loc, calls, uuids, rows, issued>>

\* The database cannot be opened or written: sqlite3 raises.
StoreCreateFails ==
    /\ pc = "schedule_store.create"
    /\ RunAtParses(calls[Len(calls)].arg.run_at_utc)
    /\ response' = Unhandled("payment_schedule", "OperationalError", loc.request_id)
    /\ pc' = "done"
    /\ UNCHANGED <<req, loc, calls, uuids, rows, issued>>

RunAts == {"2030-01-01T00:00:00Z", "2030-01-01", "2030-01-01 09:30-05:00",
           "2030-02-30T10:00:00", "not-a-date", "2030-01-01T25:00:00Z",
           "2030-01-01T00:00:00+00:00Z", ""}

ScheduleDrafts ==
    {d \in SubmitDrafts : /\ d.proposed_payment_payload # EmptyPreview
                          /\ d.currency = "USD" /\ d.purpose = "rent"
                          /\ d.payee.name = "Sam" /\ ~d.needs_confirmation}

NextSchedule ==
    \/ pc = "idle" /\ \E d \in ScheduleDrafts, t \in RunAts, r \in RequestIds :
                          PaymentSchedule(d, t, r)
    \/ StoreCreateReturns
    \/ StoreCreateRejects
    \/ StoreCreateFails

SpecSchedule == Init /\ [][NextSchedule]_vars

(***************************************************************************)
(* The resolver on its own: _best_contact_match applied to drawn inputs    *)
(***************************************************************************)
MaxResolveContacts == 3

ResolvePool ==
    {Contact("c1", None, "Sam Ex", Absent, "a@x"),
     Contact("c2", None, "Sam", Absent, "b@x"),
     Contact(None, "k3", None, "Sam", " A@X"),
     Contact("c4", None, "Al", Absent, None),
     Contact("c5", None, "Bo Sam", Absent, Absent)}

\* Lists longer than the five candidates a result may carry.
LongLists ==
    LET c1 == Contact("c1", None, "Sam Ex", Absent, "a@x")
        c2 == Contact("c2", None, "Sam", Absent, "b@x")
        c4 == Contact("c4", None, "Al", Absent, None)
        c5 == Contact("c5", None, "Bo Sam", Absent, Absent)
    IN {<<c5, c4, c2, c5, c1, c2, c5>>, <<c4, c4, c4, c4, c4, c4>>}

ResolvePayloads ==
    {[key |-> "contacts", list |-> l] : l \in ListsOver(ResolvePool, MaxResolveContacts)}
    \cup {[key |-> "data", list |-> l] : l \in LongLists}
    \cup {[key |-> k, list |-> <<Contact("c1", None, "Sam Ex", Absent, "a@x")>>] :
              k \in {"results", "unknown"}}

NameHints == {None, "", "Sam", " SAM  ex ", "  "}
EmailHints == {None, "", "a@x", " A@X", "b@x", "None", "  "}

\* _best_contact_match(contacts_payload, name=name, email=email)
Resolve(payload, name, email) ==
    /\ pc = "idle"
    /\ req' = [tool |-> "_best_contact_match", payload |-> payload,
               name |-> name, email |-> email]
    /\ loc' = [resolved |-> BestContactMatch(payload, name, email)]
    /\ pc' = "done"
    /\ UNCHANGED <<calls, response, uuids, rows, issued>>

NextResolve ==
    pc = "idle" /\ \E p \in ResolvePayloads, n \in NameHints, e \in EmailHints :
                       Resolve(p, n, e)

SpecResolve == Init /\ [][NextResolve]_vars

(***************************************************************************)
(* Properties of payment_prepare (specification Spec)                      *)
(***************************************************************************)
\* payment_prepare has returned a draft.
DraftReturned == pc = "done" /\ response.ok /\ response.tool = "payment_prepare"
\* prepare_payment got as far as its collaborators.
Prepared == req.tool = "payment_prepare" /\ loc # NoLoc

\* C1: every draft returned by prepare_payment has needs_confirmation true
\* exactly when it records an assumption, or a missing field, or its payee's
\* match confidence is below 0.95.
C1_NeedsConfirmation ==
    DraftReturned =>
        (response.data.needs_confirmation <=>
            (\/ Len(response.data.assumptions) > 0
             \/ Len(response.data.missing_fields) > 0
             \/ response.data.payee.match_confidence < 95))

\* A draft that needs no confirmation: nothing assumed, nothing missing and
\* a payee matched with confidence 0.95 or more.
C1_Witness ==
    /\ DraftReturned
    /\ ~response.data.needs_confirmation
    /\ response.data.payee.match_confidence >= 95

\* C4: when the payment-history lookup raises, prepare still returns a
\* draft, whose funding method is the one selected without a preference, and
\* which records no "inferred from past payments" assumption.
C4_HistoryFailOpen ==
    (pc = "done" /\ Prepared /\ loc.history = "raised") =>
        /\ response.ok
        /\ response.data.funding_method_id
               = PickFundingMethodId(loc.funding_methods, None)
        /\ \A k \in DOMAIN response.data.assumptions :
               response.data.assumptions[k] # A_History

\* C8: an invoice marked not processable makes prepare fail with
\* UNPROCESSABLE_DOCUMENT and the invoice's reason, whatever command comes
\* with it, and no collaborator is called.
C8_Unprocessable ==
    (req.tool = "payment_prepare" /\ req.invoice.present /\ ~req.invoice.processable) =>
        /\ pc = "done"
        /\ ~response.ok
        /\ response.code = "UNPROCESSABLE_DOCUMENT"
        /\ response.details.reason = req.invoice.reason
        /\ calls = <<>>

\* An unprocessable invoice with a stated reason, sent with a command that
\* supplies amount, payee and purpose.
C8_Witness ==
    /\ req.tool = "payment_prepare"
    /\ req.invoice.present /\ ~req.invoice.processable
    /\ req.invoice.reason = "no amount found"
    /\ req.command = "Pay $50 to Sam for rent"
    /\ response.code = "UNPROCESSABLE_DOCUMENT"

\* The ids of the listed funding methods that carry one, in list order.
ListedIds(payload) ==
    LET ms == FundingItems(payload)
    IN [k \in 1..Cardinality(WithId(ms)) |->
          ms[CHOOSE i \in WithId(ms) : Cardinality({j \in WithId(ms) : j < i}) = k - 1].id]

\* The history preference is usable: the resolved payee has an email, the
\* lookup returned an id, and a listed funding method has that id.
PreferenceUsable ==
    /\ Truthy(loc.resolved.email)
    /\ loc.history = "returned"
    /\ Truthy(loc.preferred_fm)
    /\ \E k \in DOMAIN ListedIds(loc.funding_methods) :
           ListedIds(loc.funding_methods)[k] = loc.preferred_fm

\* C9: the draft's funding_method_id is the history-preferred id when that
\* preference is usable, else the id of the first listed method that has
\* one, and it is null exactly when no listed method has an id.
C9_FundingMethod ==
    DraftReturned =>
        LET ids == ListedIds(loc.funding_methods)
            fm == response.data.funding_method_id
        IN /\ PreferenceUsable => fm = loc.preferred_fm
           /\ (~PreferenceUsable /\ ids # <<>>) => fm = ids[1]
           /\ (fm = None) <=> (ids = <<>>)

\* The history preference is used although another method is listed first.
C9_Witness ==
    /\ DraftReturned
    /\ PreferenceUsable
    /\ ListedIds(loc.funding_methods)[1] # loc.preferred_fm
    /\ response.data.funding_method_id = loc.preferred_fm

\* No entry of a list occurs twice.
NoDuplicates(list) == \A i, j \in DOMAIN list : list[i] = list[j] => i = j
Has(list, x) == \E k \in DOMAIN list : list[k] = x

\* C10: missing_fields holds "amount" exactly when the merged amount is
\* unset, "payee" exactly when neither a payee name nor a payee email is
\* set, "funding_method_id" exactly when the selection returned null, and
\* nothing else and nothing twice.
C10_MissingFields ==
    DraftReturned =>
        LET m == response.data.missing_fields
        IN /\ Has(m, "amount") <=> (loc.amount = NoneAmt)
           /\ Has(m, "payee") <=> (loc.payee_name = None /\ loc.payee_email = None)
           /\ Has(m, "funding_method_id") <=> (loc.fm_id = None)
           /\ \A k \in DOMAIN m : m[k] \in {"amount", "payee", "funding_method_id"}
           /\ NoDuplicates(m)

(***************************************************************************)
(* Properties of payment_submit (specification SpecSubmit)                 *)
(***************************************************************************)
Submitted == req.tool = "payment_submit"

\* The required names of a draft whose value is null, in the gate's order.
UnsetRequired(draft) ==
    (IF draft.amount = NoneAmt THEN <<"amount">> ELSE <<>>)
    \o (IF draft.currency = None THEN <<"currency">> ELSE <<>>)
    \o (IF draft.payee.email = None /\ draft.payee.name = None
        THEN <<"payee">> ELSE <<>>)
    \o (IF draft.funding_method_id = None THEN <<"funding_method_id">> ELSE <<>>)

\* C2: a submitted draft with a null required field fails with
\* MISSING_FIELDS, details.missing lists exactly the null required names, and
\* create_payment is not called; a draft whose requirements are all non-null
\* is not rejected by the gate.
C2_SubmitGate ==
    Submitted =>
        IF UnsetRequired(req.draft) # <<>>
        THEN /\ pc = "done"
             /\ response.code = "MISSING_FIELDS"
             /\ response.details.missing = UnsetRequired(req.draft)
             /\ calls = <<>>
        ELSE response.code # "MISSING_FIELDS"

\* C3: the payload handed to create_payment carries the draft's current
\* amount, currency, purpose, funding method and payee, whatever the
\* proposed payload holds, also when the purpose was changed or cleared.
C3_PayloadFromDraft ==
    (Submitted /\ calls # <<>>) =>
        LET p == calls[1].arg
            d == req.draft
        IN /\ p.amount = [number |-> d.amount, currency |-> d.currency]
           /\ p.purpose = d.purpose
           /\ p.fundingMethod = d.funding_method_id
           /\ p.recipient = [email |-> d.payee.email, name |-> d.payee.name,
                             contactId |-> d.payee.contact_id]

(***************************************************************************)
(* Properties of payment_schedule (specification SpecSchedule)             *)
(***************************************************************************)
Scheduling == req.tool = "payment_schedule"
Malformed == Scheduling /\ ~RunAtParses(req.run_at_utc)

\* C5: for a run_at_utc that does not parse, the schedule store's create is
\* never called and no schedule record is persisted.
C5_RejectedBeforeStore ==
    Malformed =>
        /\ \A k \in DOMAIN calls : calls[k].fn # "schedule_store.create"
        /\ rows = <<>>

\* C6: a payment_schedule call whose run_at_utc does not parse fails with an
\* error code of its own, not the generic UNHANDLED.
C6_DedicatedCode ==
    (Malformed /\ pc = "done") =>
        /\ ~response.ok
        /\ response.code # "UNHANDLED"

(***************************************************************************)
(* Properties of _best_contact_match (specification SpecResolve)           *)
(***************************************************************************)
Resolved == pc = "done" /\ req.tool = "_best_contact_match"

\* The contacts that have an email equal to the hint once both are trimmed
\* and lower-cased.
SameEmail(items, email) ==
    {i \in DOMAIN items :
        /\ items[i].email \notin {None, Absent}
        /\ Lower(Strip(Text[items[i].email])) = Lower(Strip(Text[email]))}

BothGiven == Prepared /\ req.invoice.present /\ Truthy(req.command)

\* C11: with both an invoice and a command, every field the invoice sets
\* (amount, payee name, purpose) keeps the invoice's value, an amount of 0
\* included, and the command's parsed value is used only for a field the
\* invoice left unset.
C11_InvoicePrecedence ==
    BothGiven =>
        LET i == req.invoice
            parsed == ParsePaymentCommand(req.command)
        IN /\ loc.amount = (IF i.amount # NoneAmt THEN i.amount ELSE parsed.amount)
           /\ loc.payee_name = (IF i.name # None THEN i.name ELSE parsed.payee_name)
           /\ (pc = "list_contacts") =>
                  loc.purpose = (IF i.purpose # None THEN i.purpose ELSE parsed.purpose)

(***************************************************************************)
(* Repeated calls of payment_prepare                                       *)
(***************************************************************************)
\* No further call is started once this many uuid4 tokens have been drawn.
MaxUuids == 4

\* The caller starts another call once the running one has returned.
CallAgain ==
    /\ pc = "done"
    /\ uuids < MaxUuids
    /\ pc' = "idle"
    /\ UNCHANGED <<req, loc, calls, response, uuids, rows, issued>>

CallCommands == {None, "Pay $50 to Sam for rent"}
CallContactPayloads ==
    {[key |-> "contacts", list |-> l] :
        l \in {<<>>, <<Contact("c1", None, "Sam Ex", Absent, "a@x")>>}}
CallFundingPayloads ==
    {[key |-> "fundingMethods", list |-> l] : l \in {<<>>, <<[id |-> "fm_1"]>>}}
CallHistoryEnvs ==
    {[configured |-> TRUE, driver |-> FALSE, db |-> "empty"],
     [configured |-> TRUE, driver |-> TRUE, db |-> "fm_1"]}

NextCalls ==
    \/ pc = "idle" /\ \E c \in CallCommands, r \in RequestIds :
                          PaymentPrepare(c, NoInvoice, None, r)
    \/ pc = "list_contacts" /\ \E p \in CallContactPayloads : ContactsReturn(p)
    \/ ContactsRaises
    \/ pc = "list_funding_methods" /\ \E p \in CallFundingPayloads : FundingReturn(p)
    \/ FundingRaises
    \/ pc = "history" /\ \E h \in CallHistoryEnvs : HistoryReturn(h)
    \/ pc = "history" /\ \E h \in CallHistoryEnvs : HistoryRaises(h)
    \/ CallAgain

SpecCalls == Init /\ [][NextCalls]_vars

\* C12: any two drafts returned by prepare_payment, those of two calls with
\* identical inputs included, differ in draft_id and in idempotency_key.
C12_DistinctIds ==
    \A i, j \in DOMAIN issued :
        i # j => /\ issued[i].draft_id # issued[j].draft_id
                 /\ issued[i].idempotency_key # issued[j].idempotency_key

\* Two calls with the same command, invoice, currency hint and request id
\* have both returned a draft.
C12_Witness ==
    /\ Len(issued) >= 2
    /\ issued[1].req = issued[2].req
    /\ pc = "done" /\ response.ok
    /\ response.data.draft_id = issued[2].draft_id

(***************************************************************************)
(* The three exposed operations together                                   *)
(***************************************************************************)
Tools == {"payment_prepare", "payment_submit", "payment_schedule"}

\* The argument of an operation does not validate against its pydantic
\* model: model_validate raises ValidationError inside the try, and the
\* except Exception branch reports it.
ValidationFails(tool, request_id) ==
    /\ pc = "idle"
    /\ req' = [tool |-> tool, request_id |-> request_id]
    /\ response' = Unhandled(tool, "ValidationError", RequestId(request_id, uuids))
    /\ uuids' = uuids + Drawn(request_id)
    /\ pc' = "done"
    /\ UNCHANGED <<loc, calls, rows, issued>>

NextTools ==
    \/ Next
    \/ NextSubmit
    \/ NextSchedule
    \/ pc = "idle" /\ \E t \in Tools, r \in RequestIds : ValidationFails(t, r)

SpecTools == Init /\ [][NextTools]_vars

\* The codes of the ToolErrors the operations raise.
ToolErrorCodes == {"BAD_REQUEST", "UNPROCESSABLE_DOCUMENT", "MISSING_FIELDS"}
\* The exceptions, other than ToolError, raised inside the operations.
OtherExceptions == {"ValidationError", "IndexError", "VeemApiError",
                    "ModuleNotFoundError", "ValueError", "OperationalError"}
\* Where an operation that has not returned stands.
Awaits == {"list_contacts", "list_funding_methods", "history",
           "create_payment", "schedule_store.create"}

NoPart == <<>>
AmountParts == {[text |-> NoPart, value |-> NoneAmt],
                [text |-> <<"$","5","0">>, value |-> 5000],
                [text |-> <<"0">>, value |-> 0],
                [text |-> <<"7",".","5">>, value |-> 750]}
ToWords == {<<" ","t","o"," ">>, <<" ","T","O"," "," ">>}
NameParts == {<<"S","a","m">>, <<"S","a","m"," ","E","x">>, <<"A",".","B">>}
ForWords == {<<" ","f","o","r"," ">>, <<" ","F","O","R"," ">>, <<" ","F","o","r"," ">>}
PurposeParts == {<<"r","e","n","t">>, <<"x"," ","2">>}

\* The command "<verb> <amount> to <name> for <purpose>"; a part that is
\* NoPart is left out with its word.
CommandOf(verb, amount, toWord, name, forWord, purpose) ==
    verb \o (IF amount.text = NoPart THEN <<>> ELSE <<" ">> \o amount.text)
         \o (IF name = NoPart THEN <<>> ELSE toWord \o name)
         \o (IF purpose = NoPart THEN <<>> ELSE forWord \o purpose)

\* parse_payment_command(command): the parsed fields, or the IndexError.
Parse(verb, amount, toWord, name, forWord, purpose) ==
    LET command == CommandOf(verb, amount, toWord, name, forWord, purpose)
    IN
    /\ pc = "idle"
    /\ req' = [tool |-> "parse_payment_command", command |-> command,
               amount |-> amount, toWord |-> toWord, name |-> name,
               forWord |-> forWord, purpose |-> purpose]
    /\ loc' = IF CommandRaises(command)
              THEN [raised |-> "IndexError", parsed |-> ParsedChars(<<>>)]
              ELSE [raised |-> "", parsed |-> ParsedChars(command)]
    /\ pc' = "done"
    /\ UNCHANGED <<calls, response, uuids, rows, issued>>

NextParse ==
    pc = "idle" /\ \E verb \in {<<"P","a","y">>, <<"p","a","y">>},
                      amount \in AmountParts,
                      toWord \in ToWords, name \in NameParts \cup {NoPart},
                      forWord \in ForWords, purpose \in PurposeParts \cup {NoPart} :
                       Parse(verb, amount, toWord, name, forWord, purpose)

SpecParse == Init /\ [][NextParse]_vars

(***************************************************************************)
(* Properties of parse_payment_command (specification SpecParse)           *)
(***************************************************************************)
Parsed == pc = "done" /\ req.tool = "parse_payment_command"

\* C14: parse_payment_command raises for no command, and when the command
\* holds " for " in any letter case the purpose is the trimmed text after
\* its first occurrence.
C14_ParseNeverRaises ==
    Parsed =>
        /\ loc.raised = ""
        /\ req.purpose # NoPart => loc.parsed.purpose = Strip(req.purpose)

\* C15: for "Pay <amount> to <name> for <purpose>" the parser returns the
\* amount, the name alone as payee_name, and the purpose.
C15_PayToFor ==
    (/\ Parsed
     /\ req.amount.text # NoPart /\ req.name # NoPart /\ req.purpose # NoPart
     /\ req.toWord = <<" ","t","o"," ">> /\ req.forWord = <<" ","f","o","r"," ">>) =>
        /\ loc.raised = ""
        /\ loc.parsed.amount = req.amount.value
        /\ loc.parsed.payee_name = req.name
        /\ loc.parsed.purpose = req.purpose

(***************************************************************************)
(* Properties of the submit result (specification SpecSubmit)              *)
(***************************************************************************)
SubmitReturned == pc = "done" /\ response.ok /\ response.tool = "payment_submit"

\* The trimmed values, other than the empty one, that the provider's
\* response holds under "id" and "paymentId".
NonBlankIds(raw) ==
    {Strip(Text[raw[k]]) : k \in {k \in {"id", "paymentId"} :
                                     /\ raw[k] \notin {Absent, None}
                                     /\ Strip(Text[raw[k]]) # <<>>}}

\* C16: the payment_id of a successful submit is the trimmed value found
\* under "id" or "paymentId"; it is null only when neither key holds a
\* non-blank value, and it is never empty or blank.
C16_PaymentId ==
    SubmitReturned =>
        LET ids == NonBlankIds(response.data.raw)
            payment_id == response.data.payment_id
        IN /\ (payment_id = None) <=> (ids = {})
           /\ payment_id # None => Text[payment_id] \in ids

(***************************************************************************)
(* Properties of the name scoring (specification SpecResolve)              *)
(***************************************************************************)
\* The contacts the resolver was given, and the hints taken as given when
\* they are non-empty strings.
GivenItems == ContactItems(req.payload)
NameGiven == Truthy(req.name)
EmailGiven == Truthy(req.email)

\* No contact has an email equal to the email hint.
NoEmailMatch == ~EmailGiven \/ SameEmail(GivenItems, req.email) = {}

\* The display name of a contact, normalized; empty when it has none.
DisplayName(c) ==
    IF c.name \notin {None, Absent, ""} THEN Normalize(Text[c.name])
    ELSE IF c.displayName \notin {None, Absent, ""} THEN Normalize(Text[c.displayName])
    ELSE <<>>

\* The score of a contact against a name hint, as the scoring rule states
\* it, in hundredths: 95, 80, 60, or 0 for a contact that is excluded.
RuleScore(c, hint) ==
    LET n == Normalize(Text[hint])
        d == DisplayName(c)
        tokens == {SplitWords(n)[k] : k \in DOMAIN SplitWords(n)}
    IN IF d = <<>> THEN 0
       ELSE IF d = n THEN 95
       ELSE IF Contains(d, n) \/ Contains(n, d) THEN 80
       ELSE IF \E t \in tokens : Contains(d, t) THEN 60
       ELSE 0

\* The positions of the contacts that score above 0, best first: by falling
\* score, and by position among equal scores.
Ranked(items, hint) ==
    LET pos == {i \in DOMAIN items : RuleScore(items[i], hint) > 0}
        before(j, i) == \/ RuleScore(items[j], hint) > RuleScore(items[i], hint)
                        \/ /\ RuleScore(items[j], hint) = RuleScore(items[i], hint)
                           /\ j < i
    IN [k \in 1..Cardinality(pos) |->
          CHOOSE i \in pos : Cardinality({j \in pos : before(j, i)}) = k - 1]

\* C17: when no contact's email matches and a name hint is given, the
\* resolver returns the contact of highest score (0.95 equal names, 0.8
\* substring, 0.6 token), the earliest of equals, with that score as
\* match_confidence, and the candidates are the at most five best-scored
\* contacts by falling score, equal scores in input order.
C17_NameScoring ==
    (Resolved /\ NameGiven /\ NoEmailMatch) =>
        LET r == Ranked(GivenItems, req.name)
            n == IF Len(r) < 5 THEN Len(r) ELSE 5
        IN r # <<>> =>
            /\ loc.resolved.match_confidence = RuleScore(GivenItems[r[1]], req.name)
            /\ loc.resolved.contact_id = ContactIdOf(GivenItems[r[1]])
            /\ loc.resolved.candidates = [k \in 1..n |-> GivenItems[r[k]]]

\* C18: when neither hint is given, or no contact matches the email hint
\* and none scores above 0 for the name hint, the result has confidence
\* 0.0, a null contact_id, the hints as given and the first min(5, n)
\* contacts as candidates; a result of confidence 0.0 has a null contact_id
\* and a result of confidence above 0 a non-null one.
C18_NoMatch ==
    Resolved =>
        LET n == IF Len(GivenItems) < 5 THEN Len(GivenItems) ELSE 5
        IN /\ (NoEmailMatch /\ (~NameGiven \/ Ranked(GivenItems, req.name) = <<>>)) =>
                /\ loc.resolved.match_confidence = 0
                /\ loc.resolved.contact_id = None
                /\ loc.resolved.name = req.name
                /\ loc.resolved.email = req.email
                /\ loc.resolved.candidates = SubSeq(GivenItems, 1, n)
           /\ loc.resolved.match_confidence = 0 => loc.resolved.contact_id = None
           /\ loc.resolved.match_confidence > 0 => loc.resolved.contact_id # None

(***************************************************************************)
(* Properties of the currency and of the recorded notes (specification     *)
(* Spec)                                                                   *)
(***************************************************************************)
UsedHintNotes == {"Used currency hint 'CAD'."}
DefaultedUsdNote == "Defaulted currency to USD."

\* C19: the currency of a returned draft is never null and is the invoice's
\* currency when the invoice sets one (no currency assumption recorded),
\* else the currency hint when given (the hint assumption recorded, the USD
\* one not), else "USD" (the USD assumption recorded).
C19_Currency ==
    DraftReturned =>
        LET d == response.data
            stated == IF req.invoice.present THEN req.invoice.currency ELSE None
            hinted == \E k \in DOMAIN d.assumptions : d.assumptions[k] \in UsedHintNotes
            defaulted == Has(d.assumptions, DefaultedUsdNote)
        IN /\ d.currency # None
           /\ IF stated \notin {None, ""}
              THEN d.currency = stated /\ ~hinted /\ ~defaulted
              ELSE IF req.currency_hint \notin {None, ""}
              THEN /\ d.currency = req.currency_hint
                   /\ Has(d.assumptions, "Used currency hint 'CAD'.")
                   /\ ~defaulted
              ELSE d.currency = "USD" /\ defaulted /\ ~hinted

\* An invoice in EUR prepared with the hint CAD: the draft is in EUR.
C19_Witness ==
    /\ DraftReturned
    /\ req.invoice.present /\ req.invoice.currency = "EUR"
    /\ req.currency_hint = "CAD"
    /\ response.data.currency = "EUR"

\* The place of a note in the fixed order of the assumptions; 0 for a text
\* that is none of the five.
NotePlace(text) ==
    IF text \in UsedHintNotes THEN 1
    ELSE IF text = DefaultedUsdNote THEN 2
    ELSE IF text = "Payee match is uncertain; please confirm." THEN 3
    ELSE IF text = "Inferred funding method from past payments." THEN 4
    ELSE IF text = "Defaulted purpose to 'Invoice payment'." THEN 5
    ELSE 0

\* The place of a name in the fixed order of the missing fields.
FieldPlace(name) ==
    IF name = "amount" THEN 1
    ELSE IF name = "payee" THEN 2
    ELSE IF name = "funding_method_id" THEN 3
    ELSE 0

\* C20: in every returned draft the assumptions are a subsequence of
\* [currency hint used, currency defaulted to USD, payee match uncertain,
\* funding method inferred from history, purpose defaulted], and the
\* missing fields a subsequence of [amount, payee, funding_method_id]: each
\* entry at most once, in that order.
C20_FixedOrder ==
    DraftReturned =>
        LET a == response.data.assumptions
            m == response.data.missing_fields
        IN /\ \A k \in DOMAIN a : NotePlace(a[k]) > 0
           /\ \A j, k \in DOMAIN a : j < k => NotePlace(a[j]) < NotePlace(a[k])
           /\ \A k \in DOMAIN m : FieldPlace(m[k]) > 0
           /\ \A j, k \in DOMAIN m : j < k => FieldPlace(m[j]) < FieldPlace(m[k])

\* A draft with four assumptions and at least two missing fields, the
\* amount first.
C20_Witness ==
    /\ DraftReturned
    /\ Len(response.data.assumptions) = 4
    /\ Len(response.data.missing_fields) >= 2
    /\ response.data.missing_fields[1] = "amount"

(***************************************************************************)
(* Properties of the uncertainty note (specification Spec)                 *)
(***************************************************************************)
UncertainNote == "Payee match is uncertain; please confirm."

\* C21: a returned draft holds the "payee match is uncertain" assumption
\* exactly when payee.match_confidence is below 0.8; a match of confidence
\* 0.8 records no such assumption and still has needs_confirmation true.
C21_UncertainNote ==
    DraftReturned =>
        LET d == response.data
        IN /\ Has(d.assumptions, UncertainNote) <=> (d.payee.match_confidence < 80)
           /\ d.payee.match_confidence = 80 => d.needs_confirmation

\* A substring match with nothing assumed and nothing missing: confirmation
\* is asked for on the confidence alone.
C21_Witness ==
    /\ DraftReturned
    /\ response.data.payee.match_confidence = 80
    /\ response.data.assumptions = <<>>
    /\ response.data.missing_fields = <<>>
    /\ response.data.needs_confirmation

(***************************************************************************)
(* Properties of the history preference (specification Spec)               *)
(***************************************************************************)
\* C22: a returned draft holds the "inferred funding method from past
\* payments" assumption only if the draft's funding_method_id equals the id
\* the history lookup returned; an id that is not among the listed funding
\* methods records no such assumption.
C22_HistoryNote ==
    DraftReturned /\ Has(response.data.assumptions, A_History) =>
        /\ loc.history = "returned"
        /\ response.data.funding_method_id = loc.preferred_fm
        /\ Has(ListedIds(loc.funding_methods), loc.preferred_fm)

(***************************************************************************)
(* The order of prepare_payment's external calls (specification Spec)      *)
(***************************************************************************)
PrepareOrder ==
    <<"list_contacts", "list_funding_methods", "last_funding_method_id_for_payee">>

\* C23: prepare_payment makes its external calls in one order: the payee is
\* resolved only once list_contacts has completed, the funding method is
\* selected only once list_funding_methods and the history lookup have
\* completed, and the history lookup is issued after payee resolution,
\* exactly when the resolved payee has an email, with that email as its key.
C23_CallOrder ==
    Prepared =>
        /\ Len(calls) <= Len(PrepareOrder)
        /\ \A k \in DOMAIN calls : calls[k].fn = PrepareOrder[k]
        /\ pc = "list_contacts" =>
             Len(calls) = 1 /\ loc.resolved = ResolvedDefault
        /\ pc = "list_funding_methods" =>
             Len(calls) = 2 /\ loc.fm_id = None /\ loc.history = "not asked"
        /\ pc = "history" =>
             Len(calls) = 3 /\ loc.fm_id = None /\ loc.history = "not asked"
        /\ Len(calls) = 3 =>
             /\ Truthy(loc.resolved.email)
             /\ calls[3].arg = loc.resolved.email
        /\ DraftReturned =>
             Len(calls) = IF Truthy(response.data.payee.email) THEN 3 ELSE 2

\* A draft returned after the lookup was made for the resolved email, and a
\* funding method was selected afterwards.
C23_Witness ==
    /\ DraftReturned
    /\ Len(calls) = 3
    /\ calls[3].arg = "a@x"
    /\ response.data.funding_method_id = "fm_1"

(***************************************************************************)
(* No retries (specification SpecTools)                                    *)
(***************************************************************************)
AtMostOnce == \A i, j \in DOMAIN calls : calls[i].fn = calls[j].fn => i = j
VeemAwaits == {"list_contacts", "list_funding_methods", "create_payment"}

Submitters == {1, 2}

\* A second call with a key already sent is answered without create_payment.
M_SubmitPaymentBy(p, draft) ==
    /\ pc[p] = "idle"
    /\ IF req = NoReq THEN TRUE ELSE req.draft = draft
    /\ req' = [tool |-> "payment_submit", draft |-> draft, request_id |-> NoToken]
    /\ uuids' = uuids + 1
    /\ IF SubmitGate(draft) # <<>> \/ calls # <<>>
       THEN /\ response' = [response EXCEPT ![p] =
                               Fail("payment_submit", "MISSING_FIELDS",
                                    [NoDetails EXCEPT !.missing = SubmitGate(draft)],
                                    Uuid(uuids + 1))]
            /\ pc' = [pc EXCEPT ![p] = "done"]
            /\ UNCHANGED <<loc, calls>>
       ELSE /\ loc' = [loc EXCEPT ![p] = [request_id |-> Uuid(uuids + 1),
                                          payload |-> SubmitPayload(draft)]]
            /\ calls' = Append(calls, Call("create_payment", SubmitPayload(draft)))
            /\ pc' = [pc EXCEPT ![p] = "create_payment"]
            /\ UNCHANGED response
    /\ UNCHANGED <<rows, issued>>

\* Call p of payment_submit up to its await (workflow.py lines 223-246): the
\* gate, then the payload and the call of create_payment.  Nothing is read
\* but the draft; the first call fixes the draft both calls submit.
SubmitPaymentBy(p, draft) ==
    /\ pc[p] = "idle"
    /\ IF req = NoReq THEN TRUE ELSE req.draft = draft
    /\ req' = [tool |-> "payment_submit", draft |-> draft, request_id |-> NoToken]
    /\ uuids' = uuids + 1
    /\ IF SubmitGate(draft) # <<>>
       THEN /\ response' = [response EXCEPT ![p] =
                               Fail("payment_submit", "MISSING_FIELDS",
                                    [NoDetails EXCEPT !.missing = SubmitGate(draft)],
                                    Uuid(uuids + 1))]
            /\ pc' = [pc EXCEPT ![p] = "done"]
            /\ UNCHANGED <<loc, calls>>
       ELSE /\ loc' = [loc EXCEPT ![p] = [request_id |-> Uuid(uuids + 1),
                                          payload |-> SubmitPayload(draft)]]
            /\ calls' = Append(calls, Call("create_payment", SubmitPayload(draft)))
            /\ pc' = [pc EXCEPT ![p] = "create_payment"]
            /\ UNCHANGED response
    /\ UNCHANGED <<rows, issued>>

\* create_payment returns to call p: lines 247-250.
CreatePaymentReturnTo(p, raw) ==
    /\ pc[p] = "create_payment"
    /\ response' = [response EXCEPT ![p] =
                       Ok("payment_submit",
                          [payment_id |-> PaymentIdOf(raw), status |-> StatusOf(raw),
                           raw |-> raw],
                          loc[p].request_id)]
    /\ pc' = [pc EXCEPT ![p] = "done"]
    /\ UNCHANGED <<req, loc, calls, uuids, rows, issued>>

\* create_payment raises in call p.
CreatePaymentRaisesIn(p) ==
    /\ pc[p] = "create_payment"
    /\ response' = [response EXCEPT ![p] =
                       Unhandled("payment_submit", "VeemApiError", loc[p].request_id)]
    /\ pc' = [pc EXCEPT ![p] = "done"]
    /\ UNCHANGED <<req, loc, calls, uuids, rows, issued>>

TwiceDrafts ==
    {d \in SubmitDrafts : /\ d.purpose = "rent" /\ ~d.needs_confirmation
                          /\ d.currency # "" /\ d.amount # 0
                          /\ d.payee.name = "Sam"}
TwiceRaw ==
    {r \in RawResponses : r.paymentId = Absent /\ r.state = Absent /\ r.id # "  "}

InitTwice ==
    /\ pc = [p \in Submitters |-> "idle"]
    /\ req = NoReq
    /\ loc = [p \in Submitters |-> NoLoc]
    /\ calls = <<>>
    /\ response = [p \in Submitters |-> NoResponse]
    /\ uuids = 0
    /\ rows = <<>>
    /\ issued = <<>>

NextTwice ==
    \/ \E p \in Submitters, d \in TwiceDrafts : SubmitPaymentBy(p, d)
    \/ \E p \in Submitters, raw \in TwiceRaw : CreatePaymentReturnTo(p, raw)
    \/ \E p \in Submitters : CreatePaymentRaisesIn(p)

SpecTwice == InitTwice /\ [][NextTwice]_vars

\* C25: when one gate-passing draft is submitted twice, in sequence or with
\* the two calls interleaved, each call invokes create_payment exactly once,
\* both invocations carry the same payload and so the same idempotencyKey,
\* and neither call is rejected, whatever the other has done.
C25_NoDedup ==
    (req # NoReq /\ SubmitGate(req.draft) = <<>>) =>
        /\ Len(calls) = Cardinality({p \in Submitters : pc[p] # "idle"})
        /\ \A k \in DOMAIN calls :
              /\ calls[k].fn = "create_payment"
              /\ calls[k].arg = SubmitPayload(req.draft)
              /\ calls[k].arg.idempotencyKey = calls[1].arg.idempotencyKey
        /\ \A p \in Submitters :
              pc[p] = "done" =>
                  \/ response[p].ok
                  \/ response[p].details.error = "VeemApiError"

\* The second call is at its await after the first has succeeded: two
\* create_payment calls with the key of the draft.
C25_Witness ==
    /\ pc[1] = "done" /\ response[1].ok
    /\ pc[2] = "create_payment"
    /\ Len(calls) = 2
    /\ calls[1].arg.idempotencyKey = Uuid(2)
    /\ calls[2].arg.idempotencyKey = Uuid(2)

(***************************************************************************)
(* The idempotency key of a submission (specification SpecSubmit)          *)
(***************************************************************************)
\* C26: every payload submit_payment hands to create_payment holds an
\* idempotencyKey equal to the idempotency_key field of the submitted draft,
\* also when the draft's proposed_payment_payload was edited or emptied.
C26_KeyFromDraft ==
    (req.tool = "payment_submit" /\ calls # <<>>) =>
        calls[Len(calls)].arg.idempotencyKey = req.draft.idempotency_key

(***************************************************************************)
(* A prepared draft handed on to payment_submit as it was returned         *)
(***************************************************************************)
RoundCommands == {None, "Pay $50 to Sam for rent"}
RoundInvoices ==
    {NoInvoice}
    \cup [present : {TRUE}, processable : {TRUE}, reason : {None},
          name : {None}, email : {None, "  ", " A@X"},
          amount : {NoneAmt, 5000}, currency : {None}, purpose : {None}]
RoundContactPayloads ==
    {[key |-> "contacts", list |-> l] :
        l \in {<<>>, <<Contact("c1", None, "Sam Ex", Absent, "a@x")>>,
               <<Contact("c9", None, None, Absent, Absent)>>}}

\* The caller passes the draft it was given to payment_submit.
SubmitPrepared(request_id) ==
    /\ response.ok
    /\ response.tool = "payment_prepare"
    /\ PaymentSubmit(response.data, request_id)

NextRound ==
    \/ pc = "idle" /\ response = NoResponse
         /\ \E c \in RoundCommands, i \in RoundInvoices :
               PaymentPrepare(c, i, None, NoToken)
    \/ pc = "list_contacts" /\ \E p \in RoundContactPayloads : ContactsReturn(p)
    \/ ContactsRaises
    \/ pc = "list_funding_methods" /\ \E p \in CallFundingPayloads : FundingReturn(p)
    \/ FundingRaises
    \/ pc = "history" /\ \E h \in CallHistoryEnvs : HistoryReturn(h)
    \/ pc = "history" /\ \E h \in CallHistoryEnvs : HistoryRaises(h)
    \/ DraftReturned /\ CallAgain
    \/ pc = "idle" /\ response # NoResponse /\ \E r \in RequestIds : SubmitPrepared(r)
    \/ pc = "create_payment" /\ \E raw \in TwiceRaw : CreatePaymentReturn(raw)
    \/ CreatePaymentRaises

SpecRound == Init /\ [][NextRound]_vars

GateRejected == pc = "done" /\ response.code = "MISSING_FIELDS"

\* C27: a draft returned by prepare_payment and submitted unedited is
\* rejected by the submit gate exactly when its missing_fields is non-empty,
\* and the rejection's details.missing is the draft's missing_fields.
C27_SameCompleteness ==
    (req.tool = "payment_submit" /\ pc \in {"create_payment", "done"}) =>
        /\ GateRejected <=> req.draft.missing_fields # <<>>
        /\ GateRejected => response.details.missing = req.draft.missing_fields

(***************************************************************************)
(* What a submission depends on (specification SpecSubmit)                 *)
(***************************************************************************)
\* The drafts that differ from draft at most in needs_confirmation,
\* assumptions and missing_fields.
Variants(draft) ==
    {[draft EXCEPT !.needs_confirmation = nc, !.assumptions = a,
                   !.missing_fields = m] :
        nc \in BOOLEAN,
        a \in {<<>>, <<A_Usd>>, <<A_Uncertain, A_Purpose>>},
        m \in {<<>>, <<"amount">>, <<"payee", "funding_method_id">>}}

\* C28: the gate decision and the payload given to create_payment are the
\* same for every draft that differs from the submitted one only in
\* needs_confirmation, assumptions or missing_fields; so a draft whose
\* required fields are set is submitted even when needs_confirmation is true.
C28_OnlyCoreFields ==
    (req.tool = "payment_submit" /\ pc \in {"create_payment", "done"}) =>
        \A v \in Variants(req.draft) :
            IF SubmitGate(v) = <<>>
            THEN /\ Len(calls) = 1
                 /\ calls[1].arg = SubmitPayload(v)
                 /\ response.code # "MISSING_FIELDS"
            ELSE /\ calls = <<>>
                 /\ response.code = "MISSING_FIELDS"
                 /\ response.details.missing = SubmitGate(v)

\* A draft that asks for confirmation has been submitted and paid.
C28_Witness ==
    /\ req.tool = "payment_submit"
    /\ req.draft.needs_confirmation
    /\ pc = "done"
    /\ response.ok
    /\ Len(calls) = 1

(***************************************************************************)
(* Properties of the email scan (specification SpecResolve)                *)
(***************************************************************************)
\* C29: a result of match_confidence 1.0 is returned only for a contact
\* with a non-empty email that equals, trimmed and lower-cased, an email
\* hint that is not blank; a blank hint, or a contact whose email is absent
\* or null, never gives confidence 1.0.
C29_RealEmailOnly ==
    (Resolved /\ loc.resolved.match_confidence = ConfEmail) =>
        /\ Strip(Text[req.email]) # <<>>
        /\ \E i \in SameEmail(GivenItems, req.email) :
              /\ GivenItems[i].email # ""
              /\ loc.resolved.candidates = <<GivenItems[i]>>

(***************************************************************************)
(* An email hint that matches no contact (specification SpecResolve)       *)
(***************************************************************************)
\* C30: when an email hint is given and no contact's email equals it, the
\* result is the one the resolver returns for the same contacts and name
\* hint without an email hint, except that a no-match result echoes the
\* email hint; a name match carries the matched contact's own email.
C30_AsWithoutEmailHint ==
    (Resolved /\ EmailGiven /\ NoEmailMatch) =>
        LET base == BestContactMatch(req.payload, req.name, None)
        IN IF base.match_confidence = ConfNone
           THEN loc.resolved = [base EXCEPT !.email = req.email]
           ELSE loc.resolved = base

====
